---- MODULE Spec2Model ----
(***************************************************************************)
(* Verification model of moonryul/beat-retinanet-ddp:                      *)
(*   src/retinanet/dataloader.py  (collater, BeatDataset)                  *)
(*   src/retinanet/dstcn.py       (dsTCNBlock, dsTCNModel)                 *)
(*                                                                         *)
(* Python floats are IEEE-754 binary64.  Every place where the source      *)
(* divides or multiplies floats and truncates the result with int() or     *)
(* astype(int) is modelled with the correctly rounded binary64 operation   *)
(* (round to nearest, ties to even) on arbitrary-precision naturals, so    *)
(* that a rate conversion is not assumed to be exact.                      *)
(***************************************************************************)
EXTENDS Integers, Sequences, FiniteSets, TLC

(***************************************************************************)
(* Arbitrary-precision naturals: little-endian sequences of limbs in base  *)
(* 2^14 (TLC integers are 32 bits wide; a product of two limbs plus the    *)
(* carries of a schoolbook multiplication stays below 2^31).               *)
(***************************************************************************)
LimbBits == 7 * 2

Limb == 2 ^ LimbBits

RECURSIVE BNorm(_)
BNorm(s) ==
    IF s = <<>> THEN <<>>
    ELSE IF s[Len(s)] = 0 THEN BNorm(SubSeq(s, 1, Len(s) - 1))
    ELSE s

RECURSIVE BFromInt(_)
BFromInt(n) == IF n = 0 THEN <<>> ELSE <<n % Limb>> \o BFromInt(n \div Limb)

RECURSIVE BToInt(_)
BToInt(s) == IF s = <<>> THEN 0 ELSE s[1] + Limb * BToInt(Tail(s))

RECURSIVE BAddC(_, _, _)
BAddC(a, b, c) ==
    IF a = <<>> /\ b = <<>> THEN (IF c = 0 THEN <<>> ELSE <<c>>)
    ELSE LET x == IF a = <<>> THEN 0 ELSE a[1]
             y == IF b = <<>> THEN 0 ELSE b[1]
             v == x + y + c
         IN  <<v % Limb>> \o BAddC(IF a = <<>> THEN <<>> ELSE Tail(a),
                                   IF b = <<>> THEN <<>> ELSE Tail(b),
                                   v \div Limb)

BAdd(a, b) == BAddC(a, b, 0)

\* s * k + c for a single limb k
RECURSIVE BMulLimb(_, _, _)
BMulLimb(s, k, c) ==
    IF s = <<>> THEN (IF c = 0 THEN <<>> ELSE <<c>>)
    ELSE LET v == s[1] * k + c
         IN  <<v % Limb>> \o BMulLimb(Tail(s), k, v \div Limb)

RECURSIVE BMul(_, _)
BMul(a, b) ==
    IF a = <<>> \/ b = <<>> THEN <<>>
    ELSE BAdd(BMulLimb(b, a[1], 0),
              LET r == BMul(Tail(a), b) IN IF r = <<>> THEN <<>> ELSE <<0>> \o r)

RECURSIVE IntBitLen(_)
IntBitLen(n) == IF n = 0 THEN 0 ELSE 1 + IntBitLen(n \div 2)

BBitLen(s) ==
    LET t == BNorm(s)
    IN  IF t = <<>> THEN 0 ELSE (Len(t) - 1) * LimbBits + IntBitLen(t[Len(t)])

\* bit i (0 = least significant) of s
BBit(s, i) ==
    LET k == i \div LimbBits + 1
    IN  IF k > Len(s) THEN 0 ELSE (s[k] \div (2 ^ (i % LimbBits))) % 2

\* floor(s / 2^d)
BShr(s, d) ==
    LET q == d \div LimbBits
        r == d % LimbBits
        t == IF q >= Len(s) THEN <<>> ELSE SubSeq(s, q + 1, Len(s))
    IN  BNorm([i \in 1..Len(t) |->
                 (t[i] \div (2 ^ r))
                 + (IF i < Len(t) THEN (t[i + 1] % (2 ^ r)) * (2 ^ (LimbBits - r))
                    ELSE 0)])

\* s * 2^d
BShl(s, d) ==
    LET q == d \div LimbBits
        r == d % LimbBits
        u == BMulLimb(s, 2 ^ r, 0)
    IN  IF u = <<>> THEN <<>> ELSE [i \in 1..q |-> 0] \o u

\* some bit below position d of s is set
BLowNonzero(s, d) == \E i \in 0..(d - 1) : BBit(s, i) = 1

(***************************************************************************)
(* binary64 values >= 0 as [m, e], standing for m * 2^e with m < 2^53 + 1. *)
(* Exponent range is not modelled: every value here is a sample count, a   *)
(* time in seconds or a rate, far from overflow and from the subnormals.   *)
(***************************************************************************)
MantBits == 50 + 3

\* round the exact value (M + sticky) * 2^E to nearest, ties to even
FRound(M, E, sticky) ==
    LET n == BBitLen(M)
        d == n - MantBits
    IN  IF d <= 0 THEN [m |-> BNorm(M), e |-> E]
        ELSE LET kept == BShr(M, d)
                 rnd  == BBit(M, d - 1) = 1
                 st   == sticky \/ BLowNonzero(M, d - 1)
                 up   == rnd /\ (st \/ BBit(kept, 0) = 1)
             IN  [m |-> IF up THEN BAdd(kept, <<1>>) ELSE kept, e |-> E + d]

FFromInt(n) == [m |-> BFromInt(n), e |-> 0]

\* limbs of the fraction r / b, most significant first, k limbs; and the remainder
RECURSIVE FracLimbs(_, _, _)
FracLimbs(r, b, k) ==
    IF k = 0 THEN [limbs |-> <<>>, rem |-> r]
    ELSE LET v    == r * Limb
             rest == FracLimbs(v % b, b, k - 1)
         IN  [limbs |-> rest.limbs \o << v \div b >>, rem |-> rest.rem]

FracDigits == 3 + 3

\* a / b for integers 0 <= a < 2^31, 0 < b < 2^17 (Python int / int)
FDivInt(a, b) ==
    LET f == FracLimbs(a % b, b, FracDigits)
        M == f.limbs \o BFromInt(a \div b)
    IN  FRound(M, -(LimbBits * FracDigits), f.rem # 0)

FMul(x, y) == FRound(BMul(x.m, y.m), x.e + y.e, FALSE)

\* int(x) and astype(int) for x >= 0: truncation
FFloor(x) ==
    IF x.e >= 0 THEN BToInt(BShl(x.m, x.e)) ELSE BToInt(BShr(x.m, -x.e))

(***************************************************************************)
(* Generic helpers.                                                        *)
(***************************************************************************)
SeqsUpTo(S, n) == UNION {[1..k -> S] : k \in 0..n}

Range(s) == {s[i] : i \in 1..Len(s)}

SetMax(S) == CHOOSE x \in S : \A y \in S : y <= x

Min2(a, b) == IF a < b THEN a ELSE b

Max2(a, b) == IF a > b THEN a ELSE b

\* Python slice s[a:b] of a sequence for 0 <= a, 0 <= b (bounds are clamped)
Slice(s, a, b) ==
    LET lo == Min2(a, Len(s))
        hi == Min2(b, Len(s))
    IN  IF hi <= lo THEN <<>> ELSE SubSeq(s, lo + 1, hi)

\* ascending 0-based positions of the nonzero entries of a row (torch.nonzero)
RECURSIVE NonzeroUpTo(_, _)
NonzeroUpTo(row, n) ==
    IF n = 0 THEN <<>>
    ELSE NonzeroUpTo(row, n - 1) \o (IF row[n] # 0 THEN <<n - 1>> ELSE <<>>)

Nonzero(row) == NonzeroUpTo(row, Len(row))

(***************************************************************************)
(* Configuration: the defaults of BeatDataset.__init__.                    *)
(***************************************************************************)
DefaultSampleRate == 44100

DefaultTargetFactor == 256

\* self.target_sample_rate = audio_sample_rate / target_factor
target_sample_rate(rate, factor) == FDivInt(rate, factor)

\* self.target_length = int(self.length / self.target_factor)
target_length(length, factor) == FFloor(FDivInt(length, factor))

(***************************************************************************)
(* Annotation Parser.  A line is [ms, beat]: the time field is a decimal   *)
(* number of seconds with three fractional digits (ms / 1000), the second  *)
(* field the beat ordinal.  float(time_sec) is the binary64 nearest to the *)
(* decimal, the product with the sample rate is rounded again, and int()   *)
(* truncates.                                                              *)
(***************************************************************************)
beat_time_samples(ms, cfg) ==
    FFloor(FMul(FDivInt(ms, 1000), FFromInt(cfg.audio_sample_rate)))

RECURSIVE downbeats_of(_, _)
downbeats_of(lines, cfg) ==
    IF lines = <<>> THEN <<>>
    ELSE (IF Head(lines).beat = 1
          THEN <<beat_time_samples(Head(lines).ms, cfg)>> ELSE <<>>)
         \o downbeats_of(Tail(lines), cfg)

time_signature_of(beat_indices) ==
    LET mx == SetMax(Range(beat_indices))
    IN  IF mx = 2 THEN "2/4"
        ELSE IF mx = 3 THEN "3/4"
        ELSE IF mx = 4 THEN "4/4"
        ELSE "?"

\* np.max of an empty list raises ValueError
load_annot(lines, cfg) ==
    IF lines = <<>>
    THEN [ok |-> FALSE, error |-> "ValueError"]
    ELSE [ok |-> TRUE,
          beat_samples     |-> [i \in 1..Len(lines) |-> beat_time_samples(lines[i].ms, cfg)],
          downbeat_samples |-> downbeats_of(lines, cfg),
          beat_indices     |-> [i \in 1..Len(lines) |-> lines[i].beat],
          time_signature   |-> time_signature_of([i \in 1..Len(lines) |-> lines[i].beat])]

(***************************************************************************)
(* Target Renderer (the second half of load_data).                         *)
(***************************************************************************)
\* samples -> seconds -> target rate, before truncation
to_target_rate(p, cfg) ==
    FMul(FDivInt(p, cfg.audio_sample_rate), cfg.target_sample_rate)

\* N = int(t * self.target_sample_rate) + 1 with t = audio.shape[-1] / sample rate
render_length(A, cfg) == FFloor(to_target_rate(A, cfg)) + 1

\* the positions kept by "samples[samples < N]" and truncated by astype(int);
\* for x >= 0 and an integer N, x < N exactly when int(x) < N
kept_indices(samples, N, cfg) ==
    {FFloor(to_target_rate(samples[i], cfg)) : i \in 1..Len(samples)} \cap 0..(N - 1)

\* target = zeros(2, N); target[0, beats] = 1; target[1, downbeats] = 1
indicator_rows(N, b, db) ==
    << [i \in 1..N |-> IF (i - 1) \in b THEN 1 ELSE 0],
       [i \in 1..N |-> IF (i - 1) \in db THEN 1 ELSE 0] >>

render_target(A, annot, cfg) ==
    LET N == render_length(A, cfg)
    IN  CHOOSE t \in {indicator_rows(N, kept_indices(annot.beat_samples, N, cfg),
                                     kept_indices(annot.downbeat_samples, N, cfg))} : TRUE

(***************************************************************************)
(* Interval Builder.                                                       *)
(***************************************************************************)
\* consecutive pairs of the located positions, labelled with the class
make_interval_subset(samples, class_id) ==
    [i \in 1..(Len(samples) - 1) |-> <<samples[i], samples[i + 1], class_id>>]

\* nonzero(...).squeeze() is 0-dimensional for one position, so size(dim=0)
\* raises IndexError, which is caught; for no position the size is 0
fewer_than_two(locations) == Len(locations) < 2

make_intervals(target) ==
    LET beat_locations     == Nonzero(target[1])
        downbeat_locations == Nonzero(target[2])
    IN  IF fewer_than_two(downbeat_locations) \/ fewer_than_two(beat_locations)
        THEN <<>>
        ELSE make_interval_subset(downbeat_locations, 0)
             \o make_interval_subset(beat_locations, 1)

(***************************************************************************)
(* Batch Collator.  An example is [audio, annot] or [audio, annot,         *)
(* metadata]; torch.stack needs audio of one length.                       *)
(***************************************************************************)
sentinel_row == <<-1, -1, -1>>

max_num_annots(annots) == SetMax({Len(annots[i]) : i \in 1..Len(annots)})

\* variant: the padding rows are left at zero
padded_annots_zero_fill(annots, rows) ==
    [i \in 1..Len(annots) |->
        [j \in 1..rows |-> IF j <= Len(annots[i]) THEN annots[i][j] ELSE <<0, 0, 0>>]]

\* torch.ones((B, rows, 3)) * -1, then new_annots[idx, :n, :] = annot
padded_annots(annots, rows) ==
    [i \in 1..Len(annots) |->
        [j \in 1..rows |-> IF j <= Len(annots[i]) THEN annots[i][j] ELSE sentinel_row]]

collater(data) ==
    LET audios == [i \in 1..Len(data) |-> data[i].audio]
        annots == [i \in 1..Len(data) |-> data[i].annot]
        has_md == "metadata" \in DOMAIN data[1]
        mx     == max_num_annots(annots)
        new_annots == IF mx > 0 THEN padded_annots(annots, mx)
                      ELSE padded_annots(annots, 1)
    IN  IF \E i \in 1..Len(data) : Len(audios[i]) # Len(audios[1])
        THEN [ok |-> FALSE, error |-> "RuntimeError"]
        ELSE IF has_md
        THEN [ok |-> TRUE, audios |-> audios, annots |-> new_annots,
              metadata |-> [i \in 1..Len(data) |-> data[i].metadata]]
        ELSE [ok |-> TRUE, audios |-> audios, annots |-> new_annots]

(***************************************************************************)
(* load_data: the audio of a file of A samples, peak-normalised, and its   *)
(* rendered target.  Of an audio sample the model keeps its level only:    *)
(* 1 and -1 (signal of either polarity), 0 (silence), NaN.                 *)
(***************************************************************************)
NaN == 1 + 1

load_data(id, file, cfg) ==
    LET annot == load_annot(file.lines, cfg)
    IN  IF ~annot.ok THEN annot
        ELSE [ok |-> TRUE,
              audio    |-> [i \in 1..file.A |-> 1],
              target   |-> render_target(file.A, annot, cfg),
              metadata |-> [Filename |-> id, TimeSignature |-> annot.time_signature]]

(***************************************************************************)
(* Tensor operations of __getitem__ and apply_augmentations.  Columns are  *)
(* 0-based in the source and 1-based here.                                 *)
(***************************************************************************)
\* x[start:stop] = 0 on one row (the slice is clamped to the row)
zero_window(row, start, stop) ==
    [i \in 1..Len(row) |-> IF start < i /\ i <= stop THEN 0 ELSE row[i]]

\* -audio
negate(row) == [i \in 1..Len(row) |-> IF row[i] = NaN THEN NaN ELSE -row[i]]

\* audio /= audio.float().abs().max()
peak_normalize(row) ==
    IF (\E i \in 1..Len(row) : row[i] = NaN) \/ (\A i \in 1..Len(row) : row[i] = 0)
    THEN [i \in 1..Len(row) |-> NaN]
    ELSE row

\* torch.nn.functional.pad(x, (padl, padr), mode='constant')
pad_constant(row, padl, padr) ==
    [i \in 1..padl |-> 0] \o row \o [i \in 1..padr |-> 0]

\* zero_size = int(self.length * 0.1)
zero_size(cfg) == FFloor(FMul(FFromInt(cfg.length), FDivInt(1, 10)))

\* max_shift = int(0.045 * self.target_sample_rate)
max_shift(cfg) == FFloor(FMul(FDivInt(45, 1000), cfg.target_sample_rate))

\* all beats EXCEPT downbeats, and the downbeats
beat_ind(target) ==
    {i - 1 : i \in {j \in 1..Len(target[1]) : target[1][j] = 1 /\ target[2][j] # 1}}

dbeat_ind(target) == {i - 1 : i \in {j \in 1..Len(target[2]) : target[2][j] = 1}}

\* ind += shift; ind = ind[ind < target.shape[-1]]
shifted_ind(ind, shift, L) == {k \in {j + shift : j \in ind} : k < L}

\* an index tensor selects column j + L for -L <= j < 0 and raises IndexError below -L
wrap_ind(ind, L) == {IF j < 0 THEN j + L ELSE j : j \in ind}

\* variant: the beat row gets the plain beats only
shifted_target_beats_only(b, d, L) ==
    << [i \in 1..L |-> IF (i - 1) \in wrap_ind(b, L) THEN 1 ELSE 0],
       [i \in 1..L |-> IF (i - 1) \in wrap_ind(d, L) THEN 1 ELSE 0] >>

\* shifted_target[0, beat_ind] = 1; [0, dbeat_ind] = 1; [1, dbeat_ind] = 1
shifted_target(b, d, L) ==
    << [i \in 1..L |-> IF (i - 1) \in (wrap_ind(b, L) \cup wrap_ind(d, L)) THEN 1 ELSE 0],
       [i \in 1..L |-> IF (i - 1) \in wrap_ind(d, L) THEN 1 ELSE 0] >>

(***************************************************************************)
(* State.                                                                  *)
(*   ds           the BeatDataset object's configuration attributes        *)
(*   audio_files  self.audio_files, the selected files (ids)               *)
(*   disk         what the audio and annotation files hold                 *)
(*   data         self.data, the preload cache                             *)
(*   data0        the cache as __init__ left it (history)                  *)
(*   pc           where the running call stands                            *)
(*   slot         idx % len(self.audio_files) of the running __getitem__   *)
(*   audio, target, metadata   the locals of __getitem__ and of           *)
(*                apply_augmentations                                      *)
(*   shares       whether a local still is the tensor object of the cache  *)
(*   steps        the stages the running __getitem__ went through (history)*)
(*   calls        number of __getitem__ calls started                      *)
(*   ret          what the last finished call returned or raised           *)
(*   input,output argument and result of a function applied on its own     *)
(***************************************************************************)
VARIABLES ds, audio_files, disk, data, data0, pc, slot, audio, target, metadata,
          shares, steps, calls, ret, input, output

vars == <<ds, audio_files, disk, data, data0, pc, slot, audio, target, metadata,
          shares, steps, calls, ret, input, output>>

(***************************************************************************)
(* Bounds of the model.                                                    *)
(***************************************************************************)
\* window length, sample rate and downsampling factor of the modelled datasets
SmallLength == 10

SmallRate == 48

SmallFactor == 2

\* files selected for a dataset, __getitem__ calls in one run, lines of a file
MaxFiles == 1

MaxCalls == 1

MaxLines == 2

\* largest offset drawn by the jitter step (the normal distribution is unbounded)
MaxShift == 1

Subsets == {"train", "val", "test", "full-train", "full-val"}

EvalSubsets == {"val", "test", "full-val"}

\* the attributes load_data reads
RateConfig(rate, factor) ==
    [audio_sample_rate |-> rate, target_factor |-> factor,
     target_sample_rate |-> target_sample_rate(rate, factor)]

Configs ==
    {RateConfig(SmallRate, SmallFactor) @@
     [length |-> SmallLength, subset |-> sb, preload |-> pl, half |-> hf,
      augment |-> ag, pad_mode |-> "constant", examples_per_epoch |-> 3,
      target_length |-> target_length(SmallLength, SmallFactor)]
     : sb \in Subsets, pl \in BOOLEAN, hf \in BOOLEAN, ag \in BOOLEAN}

\* half is read only when preloading: without preload it stays at its default
DatasetConfigs == {c \in Configs : c.preload \/ c.half}

\* annotation files of the modelled datasets: chronological lines
LineKinds == [ms : {0, 250}, beat : {1, 2}]

DatasetLines ==
    {l \in SeqsUpTo(LineKinds, MaxLines) :
        \A i \in 1..Len(l) : \A j \in 1..Len(l) : i < j => l[i].ms < l[j].ms}

\* shorter than the window, as long, one sample longer, and longer; and a very short one
AudioLens == {2, SmallLength - 1, SmallLength, SmallLength + 1, SmallLength + 3}

Files == [A : AudioLens, lines : DatasetLines]

NoTarget == << <<>>, <<>> >>

NoShare == [audio |-> FALSE, target |-> FALSE]

(***************************************************************************)
(* The float computations tabulated over the values the modelled datasets  *)
(* use (TLC evaluates a constant table once).                              *)
(***************************************************************************)
Loaded ==
    [id \in 1..MaxFiles, f \in Files |-> load_data(id, f, RateConfig(SmallRate, SmallFactor))]

ZeroSize == zero_size([length |-> SmallLength])

MaxShiftFrames == max_shift(RateConfig(SmallRate, SmallFactor))

\* variant: the index rounded up
TargetIndexRoundedUp ==
    [n \in 0..(2 * SmallLength + 4) |-> (n + SmallFactor - 1) \div SmallFactor]

\* int(n / self.target_factor)
TargetIndex == [n \in 0..(2 * SmallLength + 4) |-> FFloor(FDivInt(n, SmallFactor))]

(***************************************************************************)
(* Init: the dataset as BeatDataset.__init__ leaves it.  All files of one  *)
(* dataset hold the same content (as with dry_run, where one file is       *)
(* repeated); with preload each has its own cache entry.  A file without   *)
(* events makes the preloading constructor raise.                          *)
(***************************************************************************)
cache_entry(d) == [audio |-> d.audio, target |-> d.target, metadata |-> d.metadata]

Init ==
    /\ ds \in DatasetConfigs
    /\ disk \in Files
    /\ \E n \in 0..MaxFiles : audio_files = [i \in 1..n |-> i]
    /\ LET fails == ds.preload /\ audio_files # <<>> /\ ~Loaded[1, disk].ok
       IN  /\ data = IF ds.preload /\ ~fails
                     THEN [k \in 1..Len(audio_files) |-> cache_entry(Loaded[audio_files[k], disk])]
                     ELSE <<>>
           /\ pc = IF fails THEN "init_raised" ELSE "ready"
           /\ ret = IF fails THEN [ok |-> FALSE, error |-> "ValueError"]
                    ELSE [ok |-> TRUE]
    /\ data0 = data
    /\ slot = 0
    /\ audio = <<>>
    /\ target = NoTarget
    /\ metadata = <<>>
    /\ shares = NoShare
    /\ steps = <<>>
    /\ calls = 0
    /\ input = <<>>
    /\ output = <<>>

Raise(e) ==
    /\ pc' = "raised"
    /\ ret' = [ok |-> FALSE, error |-> e]

const_vars == <<ds, audio_files, disk, data0, input, output>>

(***************************************************************************)
(* __getitem__, lines 205-215: fetch from the cache or from disk.          *)
(* x.float() returns x itself when x already is float32, that is, when the *)
(* cache was not stored as float16.                                        *)
(***************************************************************************)
\* variant: augmentation for the training subsets only
after_fetch_training_only(cfg) ==
    IF cfg.augment /\ cfg.subset \in {"train", "full-train"} THEN "phase" ELSE "crop"

\* lines 217-219: if self.augment: apply_augmentations, whatever the subset
after_fetch(cfg) == IF cfg.augment THEN "phase" ELSE "crop"

\* variant: crop and pad first, then the augmentations, then the intervals
stage_after_crop_first(stage, cfg) ==
    IF stage = "fetch" THEN "crop"
    ELSE IF stage = "pad" THEN (IF cfg.augment THEN "phase" ELSE "intervals")
    ELSE "intervals"

\* the order of __getitem__, lines 217-250: augmentations, crop, pad, intervals
stage_after(stage, cfg) ==
    IF stage = "fetch" THEN after_fetch(cfg)
    ELSE IF stage = "effects" THEN "crop"
    ELSE "intervals"

Fetch(idx) ==
    /\ pc \in {"ready", "returned", "raised"}
    /\ calls < MaxCalls
    /\ calls' = calls + 1
    /\ steps' = <<>>
    /\ UNCHANGED <<const_vars, data>>
    /\ IF audio_files = <<>>
       THEN /\ Raise("ZeroDivisionError")
            /\ UNCHANGED <<slot, audio, target, metadata, shares>>
       ELSE \E k \in {(idx % Len(audio_files)) + 1} :
            \E d \in {IF ds.preload THEN [ok |-> TRUE] @@ data[k]
                      ELSE Loaded[audio_files[k], disk]} :
                IF ~d.ok
                THEN /\ Raise(d.error)
                     /\ UNCHANGED <<slot, audio, target, metadata, shares>>
                ELSE /\ slot' = k
                     /\ audio' = d.audio
                     /\ target' = d.target
                     /\ metadata' = d.metadata
                     /\ shares' = [audio  |-> ds.preload /\ ~ds.half,
                                   target |-> ds.preload /\ ~ds.half]
                     /\ pc' = stage_after("fetch", ds)
                     /\ ret' = [ok |-> TRUE]

(***************************************************************************)
(* apply_augmentations, lines 440-441: phase inversion (a new tensor).     *)
(***************************************************************************)
PhaseInversion ==
    /\ pc = "phase"
    /\ pc' = "silence"
    /\ steps' = Append(steps, "augment")
    /\ \E gate \in BOOLEAN :
          IF gate
          THEN /\ audio' = negate(audio)
               /\ shares' = [shares EXCEPT !.audio = FALSE]
          ELSE UNCHANGED <<audio, shares>>
    /\ UNCHANGED <<const_vars, data, slot, target, metadata, calls, ret>>

(***************************************************************************)
(* lines 444-449: drop contiguous frames.  np.random.randint(high) raises  *)
(* ValueError for high <= 0.  Both slice assignments write in place, with  *)
(* the same start and stop.                                                *)
(***************************************************************************)
Silence ==
    /\ pc = "silence"
    /\ UNCHANGED <<const_vars, slot, metadata, calls, shares>>
    /\ \E gate \in BOOLEAN :
          IF ~gate
          THEN /\ pc' = "jitter"
               /\ UNCHANGED <<audio, target, data, steps, ret>>
          ELSE IF Len(audio) - ZeroSize - 1 <= 0
          THEN /\ Raise("ValueError")
               /\ UNCHANGED <<audio, target, data, steps>>
          ELSE \E start \in 0..(Len(audio) - ZeroSize - 2) :
               \E stop \in {start + ZeroSize} :
                  /\ audio' = zero_window(audio, start, stop)
                  /\ target' = << zero_window(target[1], start, stop),
                                  zero_window(target[2], start, stop) >>
                  /\ data' = IF shares.audio \/ shares.target
                             THEN [data EXCEPT ![slot] =
                                     [@ EXCEPT !.audio = IF shares.audio THEN audio' ELSE @,
                                               !.target = IF shares.target THEN target' ELSE @]]
                             ELSE data
                  /\ steps' = Append(steps, "silence")
                  /\ pc' = "jitter"
                  /\ UNCHANGED ret

(***************************************************************************)
(* lines 452-478: shift the targets.  dbeat_ind and beat_ind have shape    *)
(* (n, 1), so size=(1, ind.shape[-1]) draws ONE offset per channel, which  *)
(* is added to every index of the channel.  .long() truncates; with a      *)
(* standard deviation of 0 the offset is 0.                                *)
(***************************************************************************)
Shifts == IF MaxShiftFrames = 0 THEN {0} ELSE -MaxShift..MaxShift

Jitter ==
    /\ pc = "jitter"
    /\ UNCHANGED <<const_vars, data, slot, audio, metadata, calls>>
    /\ \E gate \in BOOLEAN :
          IF ~gate
          THEN /\ pc' = "effects"
               /\ UNCHANGED <<target, shares, steps, ret>>
          ELSE \E dbeat_shift \in Shifts, beat_shift \in Shifts :
               \E L \in {Len(target[1])} :
               \E b \in {shifted_ind(beat_ind(target), beat_shift, L)} :
               \E d \in {shifted_ind(dbeat_ind(target), dbeat_shift, L)} :
                  IF \E j \in b \cup d : j < -L
                  THEN /\ Raise("IndexError")
                       /\ UNCHANGED <<target, shares, steps>>
                  ELSE /\ target' = shifted_target(b, d, L)
                       /\ shares' = [shares EXCEPT !.target = FALSE]
                       /\ steps' = Append(steps, "jitter")
                       /\ pc' = "effects"
                       /\ UNCHANGED ret

(***************************************************************************)
(* lines 480-553: pitch shift, filters, chorus, compressor, EQ, noise and  *)
(* distortion, each leaving a new audio tensor when it fires and none      *)
(* touching the target; then audio /= audio.float().abs().max(), in place. *)
(* The level kept of a sample does not record what the effects do to the   *)
(* waveform.                                                               *)
(***************************************************************************)
AudioEffects ==
    /\ pc = "effects"
    /\ pc' = stage_after("effects", ds)
    /\ \E gate \in BOOLEAN :
          /\ shares' = IF gate THEN [shares EXCEPT !.audio = FALSE] ELSE shares
          /\ audio' = peak_normalize(audio)
          /\ data' = IF shares'.audio THEN [data EXCEPT ![slot].audio = audio'] ELSE data
    /\ UNCHANGED <<const_vars, slot, target, metadata, calls, steps, ret>>

(***************************************************************************)
(* __getitem__, lines 221-231: random crop.  np.random.randint(0, high)    *)
(* raises ValueError for high <= 0 and draws from 0..high-1 otherwise.     *)
(***************************************************************************)
crop_wanted ==
    /\ Len(audio) > ds.length \/ Len(target[1]) > ds.target_length
    /\ ds.subset \notin EvalSubsets

Crop ==
    /\ pc = "crop"
    /\ UNCHANGED <<const_vars, data, slot, metadata, shares, calls>>
    /\ IF ~crop_wanted
       THEN /\ pc' = "pad"
            /\ UNCHANGED <<audio, target, steps, ret>>
       ELSE IF Len(audio) - ds.length - 1 <= 0
       THEN /\ Raise("ValueError")
            /\ UNCHANGED <<audio, target, steps>>
       ELSE \E audio_start \in 0..(Len(audio) - ds.length - 2) :
            \E audio_stop \in {audio_start + ds.length} :
            \E target_start \in {TargetIndex[audio_start]} :
            \E target_stop \in {TargetIndex[audio_stop]} :
               /\ audio' = Slice(audio, audio_start, audio_stop)
               /\ target' = << Slice(target[1], target_start, target_stop),
                               Slice(target[2], target_start, target_stop) >>
               /\ steps' = Append(steps, "crop")
               /\ pc' = "pad"
               /\ UNCHANGED ret

(***************************************************************************)
(* lines 233-248: pad audio and target to the window (new tensors).        *)
(***************************************************************************)
pad_both(row, pad_size) ==
    pad_constant(row, pad_size - (pad_size \div 2), pad_size \div 2)

Pad ==
    /\ pc = "pad"
    /\ pc' = stage_after("pad", ds)
    /\ \E pad_a \in {Len(audio) < ds.length /\ ds.subset \notin EvalSubsets} :
       \E pad_t \in {Len(target[1]) < ds.target_length /\ ds.subset \notin EvalSubsets} :
          /\ audio' = IF pad_a THEN pad_both(audio, ds.length - Len(audio)) ELSE audio
          /\ target' = IF pad_t
                       THEN << pad_both(target[1], ds.target_length - Len(target[1])),
                               pad_both(target[2], ds.target_length - Len(target[1])) >>
                       ELSE target
          /\ shares' = [audio  |-> shares.audio /\ ~pad_a,
                        target |-> shares.target /\ ~pad_t]
          /\ steps' = steps \o (IF pad_a THEN <<"pad_audio">> ELSE <<>>)
                            \o (IF pad_t THEN <<"pad_target">> ELSE <<>>)
    /\ UNCHANGED <<const_vars, data, slot, metadata, calls, ret>>

(***************************************************************************)
(* lines 250-258: build the intervals and return.                          *)
(***************************************************************************)
Return ==
    /\ pc = "intervals"
    /\ pc' = "returned"
    /\ steps' = Append(steps, "intervals")
    /\ \E annot \in {make_intervals(target)} :
          ret' = IF ds.subset \in {"train", "full-train"}
                 THEN [ok |-> TRUE, audio |-> audio, annot |-> annot]
                 ELSE [ok |-> TRUE, audio |-> audio, annot |-> annot,
                       metadata |-> metadata]
    /\ UNCHANGED <<const_vars, data, slot, audio, target, metadata, shares, calls>>

Next ==
    \/ \E idx \in 0..MaxFiles : Fetch(idx)
    \/ PhaseInversion
    \/ Silence
    \/ Jitter
    \/ AudioEffects
    \/ Crop
    \/ Pad
    \/ Return

Spec == Init /\ [][Next]_vars

(***************************************************************************)
(* The pure functions on their own, over inputs the datasets above do not  *)
(* reach.  The dataset variables a function does not use stay empty.       *)
(***************************************************************************)
NoCall ==
    /\ audio_files = <<>>
    /\ data = <<>>
    /\ data0 = <<>>
    /\ slot = 0
    /\ audio = <<>>
    /\ metadata = <<>>
    /\ shares = NoShare
    /\ steps = <<>>
    /\ calls = 0
    /\ ret = [ok |-> TRUE]

call_vars == <<audio_files, data, data0, slot, audio, metadata, shares, steps, calls, ret>>

(***************************************************************************)
(* Annotation Parser and Target Renderer at the default rates (44100 Hz,   *)
(* factor 256): load_data on one file, in its two halves.                  *)
(***************************************************************************)
\* target frames of the audio files rendered
MaxFrames == 15

AnnotAudioLens ==
    {DefaultTargetFactor * k + d : k \in (MaxFrames - 1)..MaxFrames, d \in {-1, 0, 1}}

\* times in ms falling into frames 0, 14 and 15 and one past the end of the
\* audio; ordinals 1 to 4 and one beyond
AnnotLineKinds == [ms : {0, 87, 88, 350}, beat : 1..5]

AnnotFiles == [A : AnnotAudioLens, lines : SeqsUpTo(AnnotLineKinds, MaxLines)]

InitAnnot ==
    /\ ds = RateConfig(DefaultSampleRate, DefaultTargetFactor)
    /\ disk \in AnnotFiles
    /\ pc = "parse"
    /\ target = NoTarget
    /\ input = <<>>
    /\ output = [ok |-> TRUE]
    /\ NoCall

\* load_data, line 278: annot = self.load_annot(annot_filename)
ParseAnnot ==
    /\ pc = "parse"
    /\ \E annot \in {load_annot(disk.lines, ds)} :
          /\ output' = annot
          /\ pc' = IF annot.ok THEN "render" ELSE "raised"
    /\ UNCHANGED <<ds, disk, target, input, call_vars>>

\* load_data, lines 284-304
RenderTarget ==
    /\ pc = "render"
    /\ pc' = "rendered"
    /\ target' = render_target(disk.A, output, ds)
    /\ UNCHANGED <<ds, disk, input, output, call_vars>>

NextAnnot == ParseAnnot \/ RenderTarget

SpecAnnot == InitAnnot /\ [][NextAnnot]_vars

(***************************************************************************)
(* Interval Builder on every two-row 0/1 target of up to MaxCols columns.  *)
(***************************************************************************)
MaxCols == 5

\* targets as __getitem__ hands them over: a downbeat column is a beat column
Targets ==
    {t \in UNION {[1..2 -> [1..L -> {0, 1}]] : L \in 0..MaxCols} :
        \A i \in 1..Len(t[2]) : t[2][i] = 1 => t[1][i] = 1}

InitIntervals ==
    /\ ds = [subset |-> "train"]
    /\ disk = <<>>
    /\ pc = "intervals"
    /\ target \in Targets
    /\ input = <<>>
    /\ output = <<>>
    /\ NoCall

\* __getitem__, line 250: annot = self.make_intervals(target)
BuildIntervals ==
    /\ pc = "intervals"
    /\ pc' = "built"
    /\ output' = make_intervals(target)
    /\ UNCHANGED <<ds, disk, target, input, call_vars>>

NextIntervals == BuildIntervals

SpecIntervals == InitIntervals /\ [][NextIntervals]_vars

(***************************************************************************)
(* Batch Collator on batches of up to MaxBatch examples, each with up to   *)
(* MaxIntervals intervals, all with or all without metadata.               *)
(***************************************************************************)
MaxBatch == 2

MaxIntervals == 2

IntervalKinds == {<<0, 2, 0>>, <<0, 1, 1>>}

BatchAudios == {<<1>>, <<1, 1>>}

Examples == [audio : BatchAudios, annot : SeqsUpTo(IntervalKinds, MaxIntervals)]

ExamplesWithMetadata ==
    [audio : BatchAudios, annot : SeqsUpTo(IntervalKinds, MaxIntervals),
     metadata : {[Filename |-> 1, TimeSignature |-> "?"]}]

Batches ==
    UNION {[1..B -> Examples] \cup [1..B -> ExamplesWithMetadata] : B \in 1..MaxBatch}

InitCollate ==
    /\ ds = [subset |-> "train"]
    /\ disk = <<>>
    /\ pc = "collate"
    /\ target = NoTarget
    /\ input \in Batches
    /\ output = [ok |-> TRUE]
    /\ NoCall

Collate ==
    /\ pc = "collate"
    /\ pc' = "collated"
    /\ output' = collater(input)
    /\ UNCHANGED <<ds, disk, target, input, call_vars>>

NextCollate == Collate

SpecCollate == InitCollate /\ [][NextCollate]_vars

(***************************************************************************)
(* BeatDataset.__init__ (file selection) and __len__ on corpora of up to   *)
(* MaxCorpus files; input is what glob found.                              *)
(***************************************************************************)
MaxCorpus == 5

MaxEpoch == 2

DryRunCopies == 50

\* int(len(self.audio_files) * 0.8), int(len(self.audio_files) * 0.9)
split_index(n, tenths) == FFloor(FMul(FFromInt(n), FDivInt(tenths, 10)))

SplitIndex == [n \in 0..(MaxCorpus + 1), tenths \in {8, 9} |-> split_index(n, tenths)]

split_start(n, subset) ==
    IF subset = "val" THEN SplitIndex[n, 8]
    ELSE IF subset = "test" THEN SplitIndex[n, 9]
    ELSE 0

split_stop(n, subset) ==
    IF subset = "train" THEN SplitIndex[n, 8]
    ELSE IF subset = "val" THEN SplitIndex[n, 9]
    ELSE n

\* self.audio_files[start:stop], or the first file repeated for a dry run
select_files(files, cfg) ==
    IF cfg.dry_run
    THEN [i \in 1..DryRunCopies |-> files[1]]
    ELSE Slice(files, split_start(Len(files), cfg.subset), split_stop(Len(files), cfg.subset))

\* random.shuffle: any order
shuffle(n) == {p \in [1..n -> 1..n] : \A i \in 1..n : \A j \in 1..n : p[i] = p[j] => i = j}

Shuffles == [n \in 0..MaxCorpus |-> shuffle(n)]

\* variant: full-train counted by its files
len_full_train_by_files(cfg, files) ==
    IF cfg.subset \in {"test", "val", "full-val", "full-test", "full-train"}
    THEN Len(files)
    ELSE cfg.examples_per_epoch

\* __len__
len(cfg, files) ==
    IF cfg.subset \in {"test", "val", "full-val", "full-test"}
    THEN Len(files)
    ELSE cfg.examples_per_epoch

split_parked ==
    /\ disk = <<>>
    /\ data = <<>>
    /\ data0 = <<>>
    /\ slot = 0
    /\ audio = <<>>
    /\ target = NoTarget
    /\ metadata = <<>>
    /\ shares = NoShare
    /\ steps = <<>>
    /\ calls = 0
    /\ ret = [ok |-> TRUE]

split_unused == <<disk, data, data0, slot, audio, target, metadata, shares, steps, calls>>

InitSplit ==
    /\ ds \in [subset : Subsets, dry_run : BOOLEAN, examples_per_epoch : 1..MaxEpoch]
    /\ \E n \in 0..MaxCorpus : input = [i \in 1..n |-> i]
    /\ audio_files = <<>>
    /\ pc = "new"
    /\ output = 0
    /\ split_parked

\* __init__, lines 119-145
Construct ==
    /\ pc = "new"
    /\ \E p \in Shuffles[Len(input)] :
       \E shuffled \in {[i \in 1..Len(input) |-> input[p[i]]]} :
          IF ds.dry_run /\ shuffled = <<>>
          THEN /\ Raise("IndexError")
               /\ UNCHANGED audio_files
          ELSE /\ audio_files' = select_files(shuffled, ds)
               /\ pc' = "ready"
               /\ UNCHANGED ret
    /\ UNCHANGED <<ds, input, output, split_unused>>

LenCall ==
    /\ pc = "ready"
    /\ pc' = "len_returned"
    /\ output' = len(ds, audio_files)
    /\ UNCHANGED <<ds, input, audio_files, ret, split_unused>>

NextSplit == Construct \/ LenCall

SpecSplit == InitSplit /\ [][NextSplit]_vars

(***************************************************************************)
(* The train, val and test datasets of one corpus: three BeatDataset       *)
(* objects constructed over the same directory, in any order.  Each        *)
(* constructor globs the files and shuffles its own list.  data[sb] is the *)
(* instance of subset sb: its list after the shuffle and its audio_files.  *)
(***************************************************************************)
MaxSplitCorpus == 4

SplitSubsets == {"train", "val", "test"}

NoInstance == [done |-> FALSE, shuffled |-> <<>>, audio_files |-> <<>>]

corpus_parked ==
    /\ disk = <<>>
    /\ data0 = <<>>
    /\ slot = 0
    /\ audio = <<>>
    /\ target = NoTarget
    /\ metadata = <<>>
    /\ shares = NoShare
    /\ steps = <<>>
    /\ calls = 0
    /\ ret = [ok |-> TRUE]

corpus_unused == <<disk, data0, slot, audio, target, metadata, shares, steps, calls,
                   audio_files, output, ret>>

InitCorpus ==
    /\ ds = [dry_run |-> FALSE]
    /\ \E n \in 0..MaxSplitCorpus : input = [i \in 1..n |-> i]
    /\ data = [sb \in SplitSubsets |-> NoInstance]
    /\ audio_files = <<>>
    /\ pc = "constructing"
    /\ output = 0
    /\ corpus_parked

\* BeatDataset(..., subset=sb): __init__, lines 119-145
ConstructInstance(sb) ==
    /\ pc = "constructing"
    /\ ~data[sb].done
    /\ \E p \in Shuffles[Len(input)] :
       \E shuffled \in {[i \in 1..Len(input) |-> input[p[i]]]} :
          data' = [data EXCEPT ![sb] =
                      [done |-> TRUE, shuffled |-> shuffled,
                       audio_files |-> select_files(shuffled, ds @@ [subset |-> sb])]]
    /\ pc' = IF \A o \in SplitSubsets \ {sb} : data[o].done THEN "constructed"
             ELSE "constructing"
    /\ UNCHANGED <<ds, input, corpus_unused>>

NextCorpus == \E sb \in SplitSubsets : ConstructInstance(sb)

SpecCorpus == InitCorpus /\ [][NextCorpus]_vars

(***************************************************************************)
(* dsTCNModel (dstcn.py).  Of a tensor the model keeps its shape           *)
(* <<channels, length>> (the batch dimension plays no part) and the block  *)
(* that produced it.  Normalisation and activation keep the shape.         *)
(***************************************************************************)
MaxBlocks == 3

MaxKernel == 3

MaxStride == 2

MaxInputLen == 6

None == "None"

RECURSIVE Pow(_, _)
Pow(a, n) == IF n = 0 THEN 1 ELSE a * Pow(a, n - 1)

\* dsTCNModel.__init__: in_ch = ninputs if n == 0 else out_ch;
\* out_ch = channel_width if n == 0 else in_ch + channel_growth
RECURSIVE out_ch(_, _)
out_ch(n, cfg) ==
    IF n = 0 THEN cfg.channel_width ELSE out_ch(n - 1, cfg) + cfg.channel_growth

in_ch(n, cfg) == IF n = 0 THEN cfg.ninputs ELSE out_ch(n - 1, cfg)

dilation(n, cfg) == Pow(cfg.dilation_growth, n % cfg.stack_size)

\* dsTCNBlock.__init__
pad_value(kernel_size, dil) == ((kernel_size - 1) * dil) \div 2

\* torch.nn.Conv1d on <<channels, length>>: the output shape, or None when
\* the padded input is shorter than the dilated kernel or the channels differ
Conv1d(shape, ic, oc, kernel_size, stride, dil, padding) ==
    IF shape[1] # ic \/ shape[2] + 2 * padding < dil * (kernel_size - 1) + 1
    THEN None
    ELSE <<oc, ((shape[2] + 2 * padding - dil * (kernel_size - 1) - 1) \div stride) + 1>>

conv1(shape, n, cfg) ==
    Conv1d(shape, in_ch(n, cfg), out_ch(n, cfg), cfg.kernel_size, cfg.stride,
           dilation(n, cfg), pad_value(cfg.kernel_size, dilation(n, cfg)))

res_conv(shape, n, cfg) ==
    Conv1d(shape, in_ch(n, cfg), out_ch(n, cfg), 1, cfg.stride, 1, 0)

\* x + x_res: equal shapes add, a length of 1 is broadcast, anything else raises
residual_sum(x, x_res) ==
    IF x = None \/ x_res = None \/ x[1] # x_res[1] THEN None
    ELSE IF x[2] = x_res[2] THEN x
    ELSE IF x[2] = 1 THEN x_res
    ELSE IF x_res[2] = 1 THEN x
    ELSE None

\* variant: the pyramid starts one block earlier
start_level_for_fpn_one_early(nblocks, last_count) == nblocks - last_count - 1

\* start_level_for_fpn = len(self.blocks) - last_count
start_level_for_fpn(nblocks, last_count) == nblocks - last_count

ModelConfigs ==
    [nblocks : 1..MaxBlocks, ninputs : {1}, kernel_size : 1..MaxKernel,
     stride : 1..MaxStride, dilation_growth : {1, 2}, channel_growth : {0, 1},
     channel_width : {2}, stack_size : {1, 2}]

backbone_parked ==
    /\ audio_files = <<>>
    /\ disk = <<>>
    /\ data0 = <<>>
    /\ audio = <<>>
    /\ target = NoTarget
    /\ metadata = <<>>
    /\ shares = NoShare
    /\ steps = <<>>
    /\ calls = 0
    /\ ret = [ok |-> TRUE]

backbone_unused == <<audio_files, disk, data0, audio, target, metadata, shares, steps, calls>>

\* ds: the model's hyperparameters; input: forward's arguments; slot: i;
\* output: the locals x, results, base_level_image_shape and, of the block
\* run last, the shapes of its two paths; data: every activation so far
InitBackbone ==
    /\ ds \in ModelConfigs
    /\ input \in [x : {<<1, L>> : L \in 1..MaxInputLen},
                  last_count : 0..(MaxBlocks + 1),
                  base_image_level : 0..(MaxBlocks + 1)]
    /\ input.last_count <= ds.nblocks + 1
    /\ input.base_image_level <= ds.nblocks + 1
    /\ slot = 0
    /\ pc = "forward"
    /\ data = <<>>
    /\ output = [x |-> [block |-> -1, shape |-> input.x], results |-> <<>>,
                 base_level_image_shape |-> None, main |-> None, shortcut |-> None]
    /\ backbone_parked

\* one iteration of forward's loop: x = block(x), collect, capture
BlockStep ==
    /\ pc = "forward"
    /\ slot < ds.nblocks
    /\ \E main \in {conv1(output.x.shape, slot, ds)} :
       \E shortcut \in {res_conv(output.x.shape, slot, ds)} :
       \E sum \in {residual_sum(main, shortcut)} :
          IF sum = None
          THEN /\ Raise("RuntimeError")
               /\ output' = [output EXCEPT !.main = main, !.shortcut = shortcut]
               /\ UNCHANGED <<slot, data>>
          ELSE \E x \in {[block |-> slot, shape |-> sum]} :
               /\ output' =
                     [x |-> x,
                      results |-> IF slot >= start_level_for_fpn(ds.nblocks, input.last_count)
                                  THEN Append(output.results, x) ELSE output.results,
                      base_level_image_shape |->
                          IF slot = input.base_image_level - 1 THEN x.shape
                          ELSE output.base_level_image_shape,
                      main |-> main, shortcut |-> shortcut]
               /\ data' = Append(data, x)
               /\ slot' = slot + 1
               /\ UNCHANGED <<pc, ret>>
    /\ UNCHANGED <<ds, input, backbone_unused>>

\* return results, base_level_image_shape
ForwardReturn ==
    /\ pc = "forward"
    /\ slot = ds.nblocks
    /\ pc' = "returned"
    /\ ret' = [ok |-> TRUE, results |-> output.results,
               base_level_image_shape |-> output.base_level_image_shape]
    /\ UNCHANGED <<ds, input, output, slot, data, backbone_unused>>

NextBackbone == BlockStep \/ ForwardReturn

SpecBackbone == InitBackbone /\ [][NextBackbone]_vars

(***************************************************************************)
(* Properties of the Interval Builder (SpecIntervals).                     *)
(***************************************************************************)
\* C1: each row of the target yields its own intervals, whatever the other
\* row holds: a row with n >= 2 active columns gives exactly n - 1 intervals
\* of its class (1 for the beat row, 0 for the downbeat row), a row with
\* fewer gives none.
C1_RowsYieldIntervalsIndependently ==
    pc = "built" =>
        LET n_beats == Cardinality({i \in 1..Len(target[1]) : target[1][i] # 0})
            n_downs == Cardinality({i \in 1..Len(target[2]) : target[2][i] # 0})
            count(c) == Cardinality({k \in 1..Len(output) : output[k][3] = c})
        IN  /\ count(1) = IF n_beats >= 2 THEN n_beats - 1 ELSE 0
            /\ count(0) = IF n_downs >= 2 THEN n_downs - 1 ELSE 0

(***************************************************************************)
(* Properties of __getitem__ (Spec).                                       *)
(***************************************************************************)
\* C2: on train and full-train a call on a file with events, whatever the
\* length of its audio, returns without raising and returns audio of exactly
\* ds.length samples (stated with augmentation off, where crop and pad are
\* the only steps between loading and returning).
C2_TrainingCallReturnsWindow ==
    (/\ ds.subset \in {"train", "full-train"}
     /\ ~ds.augment
     /\ audio_files # <<>>
     /\ disk.lines # <<>>
     /\ pc \in {"raised", "returned"})
    => (pc = "returned" /\ Len(ret.audio) = ds.length)

(***************************************************************************)
(* Properties of __len__ (SpecSplit).                                      *)
(***************************************************************************)
\* C3 as stated: the length is examples_per_epoch for train and the number
\* of selected files for every other subset, full-train included.
C3_LengthIsFileCountExceptTrain ==
    pc = "len_returned" =>
        output = IF ds.subset = "train" THEN ds.examples_per_epoch
                 ELSE Len(audio_files)

\* C3 amended: the length is examples_per_epoch for train and full-train and
\* the number of selected files for val, test and full-val.
C3_LengthBySubset ==
    pc = "len_returned" =>
        output = IF ds.subset \in {"train", "full-train"} THEN ds.examples_per_epoch
                 ELSE Len(audio_files)

C3_Witness ==
    /\ pc = "len_returned"
    /\ ds.subset = "full-train"
    /\ ~ds.dry_run
    /\ Len(audio_files) > ds.examples_per_epoch
    /\ output = ds.examples_per_epoch

(***************************************************************************)
(* Properties of the Batch Collator (SpecCollate).                         *)
(***************************************************************************)
\* C4: for a batch of B examples with audio of one length and c_i intervals
\* each, the collated annotations have shape (B, max(max c_i, 1), 3): rows
\* up to c_i are example i's intervals in order, the others are (-1, -1, -1).
C4_CollatedAnnotations ==
    (pc = "collated" /\ \A i \in 1..Len(input) : Len(input[i].audio) = Len(input[1].audio))
    => LET B == Len(input)
           M == Max2(SetMax({Len(input[i].annot) : i \in 1..B}), 1)
       IN  /\ output.ok
           /\ Len(output.annots) = B
           /\ \A i \in 1..B :
                 /\ Len(output.annots[i]) = M
                 /\ \A j \in 1..M :
                       /\ Len(output.annots[i][j]) = 3
                       /\ output.annots[i][j] =
                             IF j <= Len(input[i].annot) THEN input[i].annot[j]
                             ELSE <<-1, -1, -1>>

C4_Witness ==
    /\ pc = "collated"
    /\ output.ok
    /\ Len(input) = 2
    /\ Len(input[1].annot) = 0
    /\ Len(input[2].annot) = 2
    /\ output.annots[1] = <<sentinel_row, sentinel_row>>
    /\ output.annots[2] = input[2].annot

(***************************************************************************)
(* More properties of __getitem__ (Spec).                                  *)
(***************************************************************************)
\* C5: a file whose annotation has no events is not an error: a call on it
\* loads an all-zero target of the computed length and returns an empty
\* interval list (stated for the subsets without crop and with augmentation
\* off, where nothing else stands between loading and returning).
C5_NoEventsIsNotAnError ==
    (/\ disk.lines = <<>>
     /\ audio_files # <<>>
     /\ ds.subset \in EvalSubsets
     /\ ~ds.augment
     /\ pc \in {"raised", "returned"})
    => /\ pc = "returned"
       /\ ret.annot = <<>>
       /\ Len(target[1]) = (disk.A \div ds.target_factor) + 1
       /\ \A r \in 1..2 : \A i \in 1..Len(target[r]) : target[r][i] = 0

\* C6 as stated: on val, test and full-val the audio and target reach the
\* Interval Builder as loaded, with no augmentation run, whatever the
\* augment option.
C6_EvalSubsetsNeverAugmented ==
    (ds.subset \in EvalSubsets /\ pc = "intervals")
    => /\ "augment" \notin Range(steps)
       /\ audio = Loaded[audio_files[slot], disk].audio
       /\ target = Loaded[audio_files[slot], disk].target

\* C6 amended: the augment option alone decides, for every subset: the
\* augmentation chain runs in a call exactly when augment is set; on val,
\* test and full-val with augment off the audio and target reach the
\* Interval Builder as loaded.
C6_AugmentOptionAloneDecides ==
    pc = "intervals" =>
       /\ ("augment" \in Range(steps)) <=> ds.augment
       /\ (ds.subset \in EvalSubsets /\ ~ds.augment)
          => /\ audio = Loaded[audio_files[slot], disk].audio
             /\ target = Loaded[audio_files[slot], disk].target

C6_Witness ==
    /\ pc = "intervals"
    /\ ds.subset = "val"
    /\ ds.augment
    /\ "silence" \in Range(steps)
    /\ "jitter" \in Range(steps)
    /\ target # Loaded[audio_files[slot], disk].target

\* C7: with preload, calls never modify the cache: after any sequence of
\* calls self.data holds what the constructor stored.
C7_CacheIsReadOnly == ds.preload => data = data0

\* C8: in the target handed to the Interval Builder every column active in
\* the downbeat row is active in the beat row, whatever the augmentations,
\* crop and pad did.
C8_DownbeatsAreBeats ==
    pc = "intervals" =>
       /\ Len(target[1]) = Len(target[2])
       /\ \A i \in 1..Len(target[2]) : target[2][i] # 0 => target[1][i] # 0

C8_Witness ==
    /\ pc = "intervals"
    /\ "silence" \in Range(steps)
    /\ "jitter" \in Range(steps)
    /\ "crop" \in Range(steps)
    /\ \E i \in 1..Len(target[2]) :
          /\ target[2][i] = 1
          /\ Loaded[audio_files[slot], disk].target[2][i] = 0

(***************************************************************************)
(* Properties of the Target Renderer and the Annotation Parser (SpecAnnot).*)
(***************************************************************************)
\* C9: for audio of A samples the rendered target has L = floor(A / factor)
\* + 1 columns, and the active columns of the beat row (downbeat row) are
\* the floor(p / factor) below L of the beat (downbeat) positions p.
C9_RenderedTargetIsFloorOfPositions ==
    pc = "rendered" =>
        LET L == (disk.A \div ds.target_factor) + 1
            cols(samples) ==
                {k \in {samples[i] \div ds.target_factor : i \in 1..Len(samples)} : k < L}
        IN  /\ Len(target[1]) = L
            /\ Len(target[2]) = L
            /\ {i - 1 : i \in {j \in 1..L : target[1][j] = 1}} = cols(output.beat_samples)
            /\ {i - 1 : i \in {j \in 1..L : target[2][j] = 1}} = cols(output.downbeat_samples)

\* C10: every sequence of lines (time, ordinal) parses: the beat positions
\* are floor(time * rate) in line order, the downbeat positions those of the
\* lines of ordinal 1, and the time signature is 2/4, 3/4, 4/4 for a largest
\* ordinal of 2, 3, 4 and ? otherwise.
C10_ParsedAnnotation ==
    pc \in {"render", "raised"} =>
        LET lines == disk.lines
            pos(i) == (lines[i].ms * ds.audio_sample_rate) \div 1000
            ones == SelectSeq([i \in 1..Len(lines) |-> i], LAMBDA i : lines[i].beat = 1)
            ords == {lines[i].beat : i \in 1..Len(lines)}
        IN  /\ pc = "render"
            /\ output.beat_samples = [i \in 1..Len(lines) |-> pos(i)]
            /\ output.downbeat_samples = [k \in 1..Len(ones) |-> pos(ones[k])]
            /\ output.time_signature =
                  IF ords # {} /\ SetMax(ords) = 2 THEN "2/4"
                  ELSE IF ords # {} /\ SetMax(ords) = 3 THEN "3/4"
                  ELSE IF ords # {} /\ SetMax(ords) = 4 THEN "4/4"
                  ELSE "?"

(***************************************************************************)
(* Properties of dsTCNModel (SpecBackbone).                                *)
(***************************************************************************)
\* C11 as stated: for every last_count K and base_image_level b, forward
\* over N blocks returns exactly the activations of blocks N-K .. N-1 in
\* block order, and the shape of the output of block b-1.
C11_PyramidForEveryCountAndLevel ==
    pc = "returned" =>
        LET N == ds.nblocks
            K == input.last_count
            b == input.base_image_level
        IN  /\ Len(ret.results) = K
            /\ \A j \in 1..K : ret.results[j] = data[N - K + j]
            /\ b \in 1..N
            /\ ret.base_level_image_shape = data[b].shape

\* C11 amended: for 0 <= K <= N the returned list holds exactly the
\* activations of blocks N-K .. N-1 in block order, for K > N those of all N
\* blocks; for 1 <= b <= N the returned shape is that of the output of block
\* b-1, for b outside 1..N it is None.
C11_PyramidAndBaseShape ==
    pc = "returned" =>
        LET N == ds.nblocks
            K == input.last_count
            b == input.base_image_level
        IN  /\ K <= N => ret.results = [j \in 1..K |-> data[N - K + j]]
            /\ K > N => ret.results = data
            /\ b \in 1..N => ret.base_level_image_shape = data[b].shape
            /\ b \notin 1..N => ret.base_level_image_shape = None
            /\ \A n \in 1..Len(data) : data[n].block = n - 1

C11_Witness ==
    /\ pc = "returned"
    /\ ds.nblocks = 3
    /\ input.last_count = 2
    /\ input.base_image_level = 2
    /\ Len(ret.results) = 2
    /\ ret.results[1].block = 1
    /\ ret.results[2].block = 2
    /\ ret.base_level_image_shape = data[2].shape
    /\ data[1].shape # data[2].shape
    /\ data[3].shape # data[2].shape

\* C18: in every block, whatever kernel_size, dilation, stride and input
\* length, the convolution path and the 1x1 shortcut path give the same
\* shape, so that x + x_res is defined; the channel widths are
\* out_0 = channel_width and out_n = out_(n-1) + channel_growth.
C18_ResidualPathsAgree ==
    /\ pc # "raised"
    /\ slot >= 1 => (output.main # None /\ output.main = output.shortcut)
    /\ \A n \in 1..Len(data) :
          data[n].shape[1] = IF n = 1 THEN ds.channel_width
                             ELSE data[n - 1].shape[1] + ds.channel_growth

(***************************************************************************)
(* Properties of the dataset split (SpecCorpus).                           *)
(***************************************************************************)
\* C12: over a corpus of n files the train, val and test instances hold the
\* index ranges [0, floor(0.8n)), [floor(0.8n), floor(0.9n)) and
\* [floor(0.9n), n) of the shuffled list, and their file sets are pairwise
\* disjoint with the whole corpus as their union.
C12_SplitIsAPartition ==
    pc = "constructed" =>
        LET n == Len(input)
            a == (8 * n) \div 10
            b == (9 * n) \div 10
            files(sb) == Range(data[sb].audio_files)
        IN  /\ data["train"].audio_files = Slice(data["train"].shuffled, 0, a)
            /\ data["val"].audio_files = Slice(data["val"].shuffled, a, b)
            /\ data["test"].audio_files = Slice(data["test"].shuffled, b, n)
            /\ files("train") \cap files("val") = {}
            /\ files("train") \cap files("test") = {}
            /\ files("val") \cap files("test") = {}
            /\ files("train") \cup files("val") \cup files("test") = Range(input)

(***************************************************************************)
(* Properties of the order and of the steps of __getitem__ (Spec).         *)
(***************************************************************************)
\* C13 as stated: in a call on a training subset crop and pad come first,
\* then the augmentation chain, then the Interval Builder.
C13_CropPadBeforeAugmentation ==
    ds.subset \in {"train", "full-train"} =>
        \A i \in 1..Len(steps) : \A j \in 1..Len(steps) :
            /\ (steps[i] \in {"crop", "pad_audio", "pad_target"}
                /\ steps[j] \in {"augment", "silence", "jitter"}) => i < j
            /\ (steps[i] \in {"augment", "silence", "jitter"}
                /\ steps[j] = "intervals") => i < j

\* C13 amended: in a call on a training subset the augmentation chain (when
\* augment is set) comes first and works on the audio and target as loaded,
\* then crop and pad, then the Interval Builder, which is the last step.
C13_AugmentationBeforeCropPad ==
    ds.subset \in {"train", "full-train"} =>
        /\ \A i \in 1..Len(steps) : \A j \in 1..Len(steps) :
              /\ (steps[i] \in {"augment", "silence", "jitter"}
                  /\ steps[j] \in {"crop", "pad_audio", "pad_target"}) => i < j
              /\ (steps[i] # "intervals" /\ steps[j] = "intervals") => i < j
        /\ pc = "phase" =>
              /\ steps = <<>>
              /\ Len(audio) = disk.A
              /\ target = (IF ds.preload THEN data[slot] ELSE Loaded[audio_files[slot], disk]).target
        /\ pc = "returned" =>
              /\ steps[Len(steps)] = "intervals"
              /\ ds.augment => steps[1] = "augment"

C13_Witness ==
    /\ pc = "returned"
    /\ ds.subset = "train"
    /\ steps = <<"augment", "silence", "jitter", "crop", "intervals">>
    /\ disk.A > ds.length
    /\ Len(ret.audio) = ds.length

\* C14: when the silence step zeroes the audio window [s, s + w), the target
\* columns it zeroes are those of the same time span, from column
\* floor(s / factor) to the column of the window's end (taken with either
\* rounding), and no other target column changes.
C14_SilenceKeepsAlignment ==
    [][(pc = "silence" /\ steps' = Append(steps, "silence")) =>
        \E s \in 0..Len(audio) :
            /\ audio' = zero_window(audio, s, s + ZeroSize)
            /\ \E stop \in {(s + ZeroSize) \div ds.target_factor,
                            (s + ZeroSize + ds.target_factor - 1) \div ds.target_factor} :
                  target' = << zero_window(target[1], s \div ds.target_factor, stop),
                               zero_window(target[2], s \div ds.target_factor, stop) >>
      ]_vars

\* C15: after the jitter step the target is active exactly at the jittered
\* columns that lie in [0, L): an event moved below 0 or to L or beyond is
\* dropped and leaves no active column (each event with an offset of its
\* own or all with the same, either way).
C15_JitterDropsOutOfRange ==
    [][(pc = "jitter" /\ steps' = Append(steps, "jitter")) =>
        LET L == Len(target[1])
            B == beat_ind(target)
            D == dbeat_ind(target)
            inside(S) == {k \in S : 0 <= k /\ k < L}
        IN  \E ob \in [B -> Shifts], od \in [D -> Shifts] :
               LET bset == inside({j + ob[j] : j \in B})
                   dset == inside({j + od[j] : j \in D})
               IN  /\ Len(target'[1]) = L
                   /\ Len(target'[2]) = L
                   /\ {c \in 0..(L - 1) : target'[1][c + 1] # 0} = bset \cup dset
                   /\ {c \in 0..(L - 1) : target'[2][c + 1] # 0} = dset
      ]_vars

\* C16: every event gets an offset of its own: when the jitter step is
\* reached with two or more events in a channel (the downbeats, or the other
\* beats) and a nonzero spread, the step can move two events of that channel
\* by different offsets, both staying inside the target.
C16_EventsJitterIndependently ==
    (/\ pc = "jitter"
     /\ MaxShiftFrames > 0
     /\ Cardinality(beat_ind(target)) >= 2 \/ Cardinality(dbeat_ind(target)) >= 2)
    => ENABLED
        (/\ Jitter
         /\ steps' = Append(steps, "jitter")
         /\ LET L == Len(target[1])
                B == beat_ind(target)
                D == dbeat_ind(target)
                inside(S) == {k \in S : 0 <= k /\ k < L}
                apart(E, o) == \E i \in E, j \in E :
                                  /\ o[i] # o[j]
                                  /\ {i + o[i], j + o[j]} \subseteq 0..(L - 1)
            IN  \E ob \in [B -> Shifts], od \in [D -> Shifts] :
                   /\ apart(B, ob) \/ apart(D, od)
                   /\ {c \in 0..(L - 1) : target'[2][c + 1] # 0} = inside({j + od[j] : j \in D})
                   /\ {c \in 0..(L - 1) : target'[1][c + 1] # 0} =
                         inside({j + ob[j] : j \in B}) \cup inside({j + od[j] : j \in D}))

\* C17: whenever a call on a training subset crops, the crop start s has
\* 0 <= s and s + length <= the audio length, the audio becomes its samples
\* [s, s + length) and the target its columns
\* [floor(s / factor), floor((s + length) / factor)).
C17_CropIsConsistent ==
    [][(pc = "crop" /\ steps' = Append(steps, "crop")) =>
        /\ ds.subset \in {"train", "full-train"}
        /\ \E s \in 0..(Len(audio) - ds.length) :
              LET t0 == s \div ds.target_factor
                  t1 == (s + ds.length) \div ds.target_factor
              IN  /\ s + ds.length <= Len(audio)
                  /\ audio' = [i \in 1..ds.length |-> audio[s + i]]
                  /\ t1 <= Len(target[1])
                  /\ \A r \in 1..2 : target'[r] = [i \in 1..(t1 - t0) |-> target[r][t0 + i]]
      ]_vars

C17_Witness ==
    /\ pc = "pad"
    /\ ds.subset \in {"train", "full-train"}
    /\ steps = <<"augment", "silence", "crop">>
    /\ Len(audio) = ds.length
    /\ Len(audio) < disk.A
    /\ \A i \in 1..Len(audio) : audio[i] # 0
    /\ Len(target[1]) = ds.target_length
    /\ Len(Loaded[audio_files[slot], disk].target[1]) > ds.target_length
    /\ \E i \in 1..Len(target[1]) : target[1][i] = 1
====
